---------------------------- MODULE Spec2Model ----------------------------
(***************************************************************************)
(* stromkompis: the price cache (scripts/download_prices.py) and the       *)
(* monthly aggregation (scripts/process_prices.py).                        *)
(*                                                                         *)
(* Values.  A Python value is a record [kind, items]: kind "list" is a     *)
(* JSON array whose elements are hourly records, kind "None" is None, and  *)
(* any other kind is a raised exception of that name.  An hourly record is *)
(* a function from field names to integers; time_end values are ordered    *)
(* like the fixed-width ISO strings they stand for.  A file is the         *)
(* sequence of JSON tokens json.dump wrote to it.                          *)
(***************************************************************************)
EXTENDS Integers, Sequences, FiniteSets, TLC

VARIABLES
    today,          \* date.today(), <<year, month, day>>
    remote,         \* day key -> what fetch_url returns for it; a key outside its domain gets any answer
    resolved,       \* the day keys the current run has gone through (read from the cache or fetched)
    pc,             \* where download_prices.main is: idle, load, fetch, rollup; SpecFetch: call, returned
    year, month, day, zi,       \* the loop variables of main (zi indexes ZONES)
    data,           \* the value of load_json in main; in SpecFetch what fetch_url returned
    acc,            \* monthly_aggregated_data
    attempt,        \* fetch_url's local `attempt`
    nreq, ndelay,   \* requests.get calls and time.sleep(RETRY_DELAY_SECONDS) calls of the current fetch_url call
    resps,          \* the responses the current fetch_url call has received (recorded by SpecFetch)
    dayFiles,       \* data_cache/<year dir>/<month>/<date>_<zone>.json: key -> file text
    rollupFiles,    \* data_cache/<year dir>/<month>/MAANED_<year>-<month>_<zone>_TOTAL.json
    yearDirs,       \* the year directories that exist under data_cache
    cachedAtStart,  \* the day keys that held an entry when the current run started
    lastWrite,      \* day key -> the data handed to the last save_json call on its file
    aborted,        \* the last run ended by an uncaught exception
    runs, kills,    \* sync runs started, runs stopped in the middle of a write
    artifact,       \* src/historicalRates.ts as last written by process_prices.main
    aggAborted      \* the last process_prices.main ended by an uncaught exception

vars == <<today, remote, resolved, pc, year, month, day, zi, data, acc, attempt, nreq, ndelay, resps,
          dayFiles, rollupFiles, yearDirs, cachedAtStart, lastWrite, aborted, runs, kills,
          artifact, aggAborted>>

-----------------------------------------------------------------------------
(* Bounds of the model *)

\* today is one of the first MaxTodayOrd days of the start year
MaxTodayOrd == 3
\* days in a month (calendar.monthrange), shortened
DaysPerMonth == 2
\* today in the specifications of stopped writes and of the pipeline
MaxShortOrd == 2
\* sync runs in one behaviour
MaxRuns == 2
\* runs stopped in the middle of a write in one behaviour
MaxKills == 1

(* Configuration of download_prices.py *)

START_YEAR == 2024
\* the zone list, shortened to one zone with VAT and the VAT-exempt zone
ZONES == <<"NO1", "NO4">>
\* a retry budget one too large
MAX_RETRIES_OffByOne == 5 + 1
MAX_RETRIES == 5
\* for month in range(1, 13)
MonthsPerYear == 12

-----------------------------------------------------------------------------
(* Python values *)

PyNone == [kind |-> "None", items |-> <<>>]
PyList(s) == [kind |-> "list", items |-> s]
Raised(name) == [kind |-> name, items |-> <<>>]
IsException(v) == v.kind \notin {"None", "list"}

\* Python truthiness of a value: None and the empty list are falsy
Truthy(v) == v.kind = "list" /\ v.items # <<>>

(* Hourly records and the bodies the remote serves *)

hourA == [NOK_per_kWh |-> 100, time_end |-> 1]
hourB == [NOK_per_kWh |-> 50, time_end |-> 2]
Bodies == { <<>>, <<hourA>>, <<hourB, hourA>> }

-----------------------------------------------------------------------------
(* JSON text *)

LBracket == [t |-> "["]
RBracket == [t |-> "]"]
Comma == [t |-> ","]
Obj(h) == [t |-> "obj", v |-> h]

RECURSIVE DumpItems(_)
DumpItems(s) ==
    IF s = <<>> THEN <<>>
    ELSE IF Len(s) = 1 THEN <<Obj(s[1])>>
    ELSE <<Obj(s[1]), Comma>> \o DumpItems(Tail(s))

\* json.dump of a list: the tokens written, in order
json_dump(v) == <<LBracket>> \o DumpItems(v.items) \o <<RBracket>>

\* the elements of an array from position i on, an element expected at i
RECURSIVE ParseItems(_, _, _)
ParseItems(text, i, sofar) ==
    IF i + 1 > Len(text) \/ text[i].t # "obj" THEN Raised("JSONDecodeError")
    ELSE IF text[i + 1] = RBracket
         THEN IF i + 1 = Len(text) THEN PyList(Append(sofar, text[i].v))
              ELSE Raised("JSONDecodeError")
    ELSE IF text[i + 1] = Comma THEN ParseItems(text, i + 2, Append(sofar, text[i].v))
    ELSE Raised("JSONDecodeError")

\* a json.load that takes the elements read before the text ends for the array
RECURSIVE LenientItems(_, _, _)
LenientItems(text, i, sofar) ==
    IF i > Len(text) \/ text[i].t # "obj" THEN PyList(sofar)
    ELSE IF i + 1 <= Len(text) /\ text[i + 1] = Comma
    THEN LenientItems(text, i + 2, Append(sofar, text[i].v))
    ELSE PyList(Append(sofar, text[i].v))
json_load_lenient(text) ==
    IF Len(text) < 1 \/ text[1] # LBracket THEN Raised("JSONDecodeError")
    ELSE LenientItems(text, 2, <<>>)

\* json.load: the whole text must be one array
json_load(text) ==
    IF Len(text) < 2 \/ text[1] # LBracket THEN Raised("JSONDecodeError")
    ELSE IF text[2] = RBracket
         THEN IF Len(text) = 2 THEN PyList(<<>>) ELSE Raised("JSONDecodeError")
    ELSE ParseItems(text, 2, <<>>)

\* load_json without its except clause
load_json_uncaught(files, path) ==
    IF path \notin DOMAIN files THEN PyNone ELSE json_load(files[path])

\* load_json that never finds the file
load_json_miss(files, path) == PyNone

load_json(files, path) ==
    IF path \notin DOMAIN files THEN PyNone
    ELSE LET v == json_load(files[path])
         IN IF v.kind = "JSONDecodeError" THEN PyNone ELSE v

\* save_json run to completion: the file holds the whole text
save_json(files, path, v) == (path :> json_dump(v)) @@ files

\* save_json stopped after n tokens reached the file (open(.., 'w') has truncated it)
save_json_torn(files, path, v, n) == (path :> SubSeq(json_dump(v), 1, n)) @@ files

-----------------------------------------------------------------------------
(* The remote: what one requests.get can produce *)

Http(status, body) == [exc |-> FALSE, status |-> status, body |-> body]
\* requests.exceptions.RequestException: timeout, connection error
TransportError == [exc |-> TRUE, status |-> 0, body |-> <<>>]
Statuses == {400, 404, 429, 500, 503}
Responses ==
    {Http(200, b) : b \in Bodies} \cup {Http(s, <<>>) : s \in Statuses} \cup {TransportError}

\* Classify with only 429 retried
Classify_5xxFinal(r) ==
    IF r.exc THEN "retry"
    ELSE IF r.status = 200 THEN "json"
    ELSE IF r.status = 429 THEN "retry"
    ELSE "None"

\* Classify with 404 retried like a server error
Classify_404Retried(r) ==
    IF r.exc THEN "retry"
    ELSE IF r.status = 200 THEN "json"
    ELSE IF r.status = 404 \/ r.status = 429 \/ (500 <= r.status /\ r.status < 600) THEN "retry"
    ELSE "None"

\* what fetch_url does with one response: return response.json(), return None, or
\* sleep and go round the loop again
Classify(r) ==
    IF r.exc THEN "retry"
    ELSE IF r.status = 200 THEN "json"
    ELSE IF r.status = 404 THEN "None"
    ELSE IF r.status = 429 \/ (500 <= r.status /\ r.status < 600) THEN "retry"
    ELSE "None"

\* one round of fetch_url's while loop, entered with `attempt` = a and answered by r
fetch_url_round(a, r) ==
    LET c == Classify(r)
    IN [returns |-> c # "retry",
        value   |-> IF c = "json" THEN PyList(r.body) ELSE PyNone,
        attempt |-> IF c = "retry" THEN a + 1 ELSE a,
        sleeps  |-> IF c = "retry" THEN 1 ELSE 0]

\* fetch_url against a remote that answers its requests with rs[1], rs[2], ..:
\* the value returned, the requests made and the retry delays slept
RECURSIVE fetch_url_from(_, _, _, _)
fetch_url_from(rs, a, n, slept) ==
    IF a >= MAX_RETRIES THEN [value |-> PyNone, nreq |-> n, ndelay |-> slept]
    ELSE LET o == fetch_url_round(a, rs[n + 1])
         IN IF o.returns
            THEN [value |-> o.value, nreq |-> n + 1, ndelay |-> slept + o.sleeps]
            ELSE fetch_url_from(rs, o.attempt, n + 1, slept + o.sleeps)

fetch_url(rs) == fetch_url_from(rs, 0, 0, 0)

\* every way the remote can answer the requests of one call
RemoteScripts == [1..MAX_RETRIES -> Responses]
\* every value one fetch_url call can return
FetchOutcomes == {fetch_url(rs).value : rs \in RemoteScripts}

-----------------------------------------------------------------------------
(* The calendar of download_prices.main *)

Date(y, m, d) == <<y, m, d>>
\* a >= b on datetime.date
DateGE(a, b) ==
    \/ a[1] > b[1]
    \/ a[1] = b[1] /\ a[2] > b[2]
    \/ a[1] = b[1] /\ a[2] = b[2] /\ a[3] >= b[3]

\* a > b on datetime.date
DateGT(a, b) ==
    \/ a[1] > b[1]
    \/ a[1] = b[1] /\ a[2] > b[2]
    \/ a[1] = b[1] /\ a[2] = b[2] /\ a[3] > b[3]

\* the n-th day counted from 1 January of START_YEAR
DateOfOrd(n) ==
    Date(START_YEAR + (n - 1) \div (MonthsPerYear * DaysPerMonth),
         (((n - 1) \div DaysPerMonth) % MonthsPerYear) + 1,
         ((n - 1) % DaysPerMonth) + 1)

CURRENT_YEAR == today[1]
YEARS_TO_CHECK == START_YEAR .. CURRENT_YEAR
\* calendar.monthrange(year, month)[1]
num_days(y, m) == DaysPerMonth

\* the first month at or after (y, m), in loop order, that main does not skip as
\* future; done when the loops over months and years run out
RECURSIVE NextMonth(_, _)
NextMonth(y, m) ==
    IF y > CURRENT_YEAR THEN [done |-> TRUE, year |-> CURRENT_YEAR, month |-> MonthsPerYear]
    ELSE IF m > MonthsPerYear THEN NextMonth(y + 1, 1)
    ELSE IF DateGT(Date(y, m, 1), today) THEN NextMonth(y, m + 1)
    ELSE [done |-> FALSE, year |-> y, month |-> m]

Zone == ZONES[zi]
DayKey == <<year, month, day, Zone>>
RollupKey == <<year, month, Zone>>
EmptyAcc == [z \in {ZONES[i] : i \in 1..Len(ZONES)} |-> <<>>]

\* the file of key k holds a day entry: a JSON array of at least one hour
HasEntry(files, k) == k \in DOMAIN files /\ Truthy(json_load(files[k]))
Cached(files) == {k \in DOMAIN files : HasEntry(files, k)}

\* `if not data:` after load_json, always taken
NeedsFetch_Always(v) == TRUE

\* `if not data:` after load_json
NeedsFetch(v) == ~Truthy(v)

-----------------------------------------------------------------------------
(* download_prices.main *)

store == <<dayFiles, rollupFiles, yearDirs>>
fetchVars == <<attempt, nreq, ndelay, resps>>
loopVars == <<year, month, day, zi>>

\* the run is over (normally, by an exception or by being stopped)
EndRun ==
    /\ pc' = "idle"
    /\ year' = START_YEAR /\ month' = 1 /\ day' = 1 /\ zi' = 1
    /\ data' = PyNone /\ acc' = EmptyAcc

\* enter month nx of the loop, or end the run when there is none; `data` is not
\* read again before line 102 assigns it, and is shown as None from here
EnterMonth(nx) ==
    IF nx.done
    THEN /\ EndRun
         /\ yearDirs' = yearDirs \cup YEARS_TO_CHECK
    ELSE /\ pc' = "load"
         /\ year' = nx.year /\ month' = nx.month /\ day' = 1 /\ zi' = 1
         /\ data' = PyNone /\ acc' = EmptyAcc
         /\ yearDirs' = yearDirs \cup (START_YEAR .. nx.year)

\* the loops over zones and days with the day loop left after its first day
NextKey_FirstDayOnly ==
    /\ UNCHANGED <<year, month>>
    /\ IF zi < Len(ZONES)
       THEN /\ zi' = zi + 1 /\ day' = day /\ pc' = "load"
       ELSE /\ zi' = 1 /\ day' = day /\ pc' = "rollup"

\* the rest of the loops over zones and days, after one (day, zone) key
NextKey ==
    /\ UNCHANGED <<year, month>>
    /\ IF zi < Len(ZONES)
       THEN /\ zi' = zi + 1 /\ day' = day /\ pc' = "load"
       ELSE IF day + 1 <= num_days(year, month) /\ ~DateGT(Date(year, month, day + 1), today)
       THEN /\ zi' = 1 /\ day' = day + 1 /\ pc' = "load"
       ELSE /\ zi' = 1 /\ day' = day /\ pc' = "rollup"

\* monthly_aggregated_data[zone].extend(data), with the list replaced
extend_replace(list, v) == v.items

\* monthly_aggregated_data[zone].extend(data)
extend(list, v) == list \o v.items

\* what fetch_url can return for key k
Answers(k) == IF k \in DOMAIN remote THEN {remote[k]} ELSE FetchOutcomes

StartRun ==
    /\ pc = "idle"
    /\ runs < MaxRuns
    /\ runs' = runs + 1
    /\ aborted' = FALSE
    /\ cachedAtStart' = Cached(dayFiles)
    /\ resolved' = {}
    /\ EnterMonth(NextMonth(START_YEAR, 1))
    /\ UNCHANGED <<today, remote, fetchVars, dayFiles, rollupFiles, lastWrite, kills, artifact,
                   aggAborted>>

\* a main that does not add the data of a cache hit to the month's list
LoadDay_HitNotAdded ==
    /\ pc = "load"
    /\ LET v == load_json(dayFiles, DayKey)
       IN IF NeedsFetch(v)
          THEN /\ pc' = "fetch"
               /\ data' = v
               /\ UNCHANGED <<loopVars, acc, aborted, resolved>>
          ELSE /\ data' = v
               /\ resolved' = resolved \cup {DayKey}
               /\ NextKey
               /\ UNCHANGED <<acc, aborted>>
    /\ UNCHANGED <<today, remote, fetchVars, store, cachedAtStart, lastWrite, runs, kills,
                   artifact, aggAborted>>

\* data = load_json(filepath): a hit goes to the month's list, a miss to fetch_url
LoadDay ==
    /\ pc = "load"
    /\ LET v == load_json(dayFiles, DayKey)
       IN IF IsException(v)
          THEN /\ EndRun
               /\ aborted' = TRUE
               /\ UNCHANGED resolved
          ELSE IF NeedsFetch(v)
          THEN /\ pc' = "fetch"
               /\ data' = v
               /\ UNCHANGED <<loopVars, acc, aborted, resolved>>
          ELSE /\ data' = v
               /\ acc' = [acc EXCEPT ![Zone] = extend(@, v)]
               /\ resolved' = resolved \cup {DayKey}
               /\ NextKey
               /\ UNCHANGED aborted
    /\ UNCHANGED <<today, remote, fetchVars, store, cachedAtStart, lastWrite, runs, kills,
                   artifact, aggAborted>>

\* a main in which a fetch_url that returns no data ends the run
FetchDay_AbortOnFailure ==
    /\ pc = "fetch"
    /\ \E v \in Answers(DayKey) :
           IF Truthy(v)
           THEN /\ data' = v
                /\ dayFiles' = save_json(dayFiles, DayKey, v)
                /\ lastWrite' = (DayKey :> v) @@ lastWrite
                /\ acc' = [acc EXCEPT ![Zone] = extend(@, v)]
                /\ resolved' = resolved \cup {DayKey}
                /\ NextKey
                /\ UNCHANGED aborted
           ELSE /\ EndRun
                /\ aborted' = TRUE
                /\ UNCHANGED <<dayFiles, lastWrite, resolved>>
    /\ UNCHANGED <<today, remote, fetchVars, rollupFiles, yearDirs, cachedAtStart, runs, kills,
                   artifact, aggAborted>>

\* data = fetch_url(url), the whole call; what it returned is saved and added to
\* the month's list when it is truthy
FetchDay ==
    /\ pc = "fetch"
    /\ \E v \in Answers(DayKey) :
           /\ data' = v
           /\ IF Truthy(v)
              THEN /\ dayFiles' = save_json(dayFiles, DayKey, v)
                   /\ lastWrite' = (DayKey :> v) @@ lastWrite
                   /\ acc' = [acc EXCEPT ![Zone] = extend(@, v)]
              ELSE UNCHANGED <<dayFiles, lastWrite, acc>>
    /\ resolved' = resolved \cup {DayKey}
    /\ NextKey
    /\ UNCHANGED <<today, remote, fetchVars, rollupFiles, yearDirs, cachedAtStart, aborted,
                   runs, kills, artifact, aggAborted>>

\* as FetchDay, but the process is stopped while save_json writes the day file
TornSaveDay ==
    /\ pc = "fetch"
    /\ kills < MaxKills
    /\ kills' = kills + 1
    /\ \E v \in Answers(DayKey) :
           /\ Truthy(v)
           /\ lastWrite' = (DayKey :> v) @@ lastWrite
           /\ \E n \in 0 .. Len(json_dump(v)) - 1 :
                  dayFiles' = save_json_torn(dayFiles, DayKey, v, n)
    /\ EndRun
    /\ UNCHANGED <<today, remote, resolved, fetchVars, rollupFiles, yearDirs, cachedAtStart,
                   aborted, runs, artifact, aggAborted>>

\* the process is stopped between two units of work: before a (day, zone) key is
\* read, or before a zone's rollup is written
StopRun ==
    /\ pc \in {"load", "rollup"}
    /\ kills < MaxKills
    /\ kills' = kills + 1
    /\ EndRun
    /\ UNCHANGED <<today, remote, resolved, fetchVars, store, cachedAtStart, lastWrite,
                   aborted, runs, artifact, aggAborted>>

\* the summary loop, one zone: save the month's list when it is not empty
WriteRollup ==
    /\ pc = "rollup"
    /\ rollupFiles' = IF acc[Zone] # <<>>
                      THEN save_json(rollupFiles, RollupKey, PyList(acc[Zone]))
                      ELSE rollupFiles
    /\ IF zi < Len(ZONES)
       THEN /\ zi' = zi + 1
            /\ UNCHANGED <<pc, year, month, day, data, acc, yearDirs>>
       ELSE EnterMonth(NextMonth(year, month + 1))
    /\ UNCHANGED <<today, remote, resolved, fetchVars, dayFiles, cachedAtStart, lastWrite,
                   aborted, runs, kills, artifact, aggAborted>>

-----------------------------------------------------------------------------
(* process_prices.py.  Amounts are integers: NOK_per_kWh in 1/100 NOK, an    *)
(* amount in oere in 1/40 oere (which holds the factors 1.25 and 0.90), a   *)
(* rounded average in 1/100 oere.  A timestamp is an integer >= 1, and 0 is *)
(* None.                                                                    *)

\* 1/40 oere in one oere
Scale == 40
\* STROMSTOTTE_GRUNNLAG_EKS_MVA, in oere
STROMSTOTTE_GRUNNLAG_EKS_MVA == 77
\* DEKNINGSGRAD, in tenths
DEKNINGSGRAD == 9
MONTH_NAMES ==
    <<"Jan", "Feb", "Mar", "Apr", "Mai", "Jun", "Jul", "Aug", "Sep", "Okt", "Nov", "Des">>
NoTimestamp == 0

\* n / d rounded to an integer, halves to even (round(x, 2) on the scaled value)
RoundHalfEven(n, d) ==
    LET q == n \div d
        r == n % d
    IN IF 2 * r < d THEN q
       ELSE IF 2 * r > d THEN q + 1
       ELSE IF q % 2 = 0 THEN q ELSE q + 1

\* round(total / count, 2) of a total in 1/40 oere, in 1/100 oere
Round2(total, count) == RoundHalfEven(total * 100, Scale * count)

\* mva_faktor with no VAT-exempt zone
mva_faktor_AllVat(zone) == 5

\* mva_faktor in quarters: 1.0 for NO4, 1.25 for the others
mva_faktor(zone) == IF zone = "NO4" THEN 4 ELSE 5

Stats(spot, subsidy, count, latest) ==
    [exc |-> "", total_spot |-> spot, total_subsidy |-> subsidy, count |-> count,
     latest |-> latest]
StatsRaised(name) ==
    [exc |-> name, total_spot |-> 0, total_subsidy |-> 0, count |-> 1, latest |-> NoTimestamp]
\* return 0, 0, None
StatsZero == Stats(0, 0, 1, NoTimestamp)

\* the loop of calculate_monthly_stats over data, from hour i on
RECURSIVE StatsLoop(_, _, _, _, _, _, _)
StatsLoop(hours, i, zone, total_spot, total_subsidy, count, latest) ==
    IF i > Len(hours)
    THEN IF count = 0 THEN StatsZero ELSE Stats(total_spot, total_subsidy, count, latest)
    ELSE IF "NOK_per_kWh" \notin DOMAIN hours[i] THEN StatsRaised("KeyError")
    ELSE LET spot_price_ore == hours[i].NOK_per_kWh * (Scale \div 4) * mva_faktor(zone)
             effektivt_tak == STROMSTOTTE_GRUNNLAG_EKS_MVA * (Scale \div 4) * mva_faktor(zone)
             subsidy == IF spot_price_ore > effektivt_tak
                        THEN ((spot_price_ore - effektivt_tak) * DEKNINGSGRAD) \div 10
                        ELSE 0
         IN StatsLoop(hours, i + 1, zone, total_spot + spot_price_ore,
                      total_subsidy + subsidy, count + 1,
                      IF "time_end" \in DOMAIN hours[i] THEN hours[i].time_end ELSE latest)

\* calculate_monthly_stats on the text of a rollup file: the two sums, the count
\* they are divided by and the timestamp returned, or the exception raised
calculate_monthly_stats(text, zone) ==
    LET v == json_load(text)
    IN IF IsException(v) THEN StatsRaised(v.kind)
       ELSE IF ~Truthy(v) THEN StatsZero
       ELSE StatsLoop(v.items, 1, zone, 0, 0, 0, NoTimestamp)

\* results[zone][month_name] = {"spotAvg": .., "subsidyAvg": ..}
SetEntry(results, zone, month_name, entry) ==
    (zone :> ((month_name :> entry) @@ (IF zone \in DOMAIN results THEN results[zone] ELSE <<>>)))
        @@ results

\* if file_latest: if latest_timestamp is None or file_latest > latest_timestamp
Later(latest_timestamp, file_latest) ==
    IF file_latest # NoTimestamp
       /\ (latest_timestamp = NoTimestamp \/ file_latest > latest_timestamp)
    THEN file_latest ELSE latest_timestamp

\* the loop of process_year_directory over the files glob returned (their keys,
\* in glob's order), from file i on; YearStep is the loop body once
\* calculate_monthly_stats has returned st
RECURSIVE YearLoop(_, _, _, _, _)
RECURSIVE YearStep(_, _, _, _, _, _)
YearLoop(cache, files, i, results, latest_timestamp) ==
    IF i > Len(files) THEN [exc |-> "", results |-> results, latest |-> latest_timestamp]
    ELSE YearStep(cache, files, i, results, latest_timestamp,
                  calculate_monthly_stats(cache[files[i]], files[i][3]))
YearStep(cache, files, i, results, latest_timestamp, st) ==
    IF st.exc # "" THEN [exc |-> st.exc, results |-> <<>>, latest |-> NoTimestamp]
    ELSE YearLoop(cache, files, i + 1,
                  SetEntry(results, files[i][3], MONTH_NAMES[files[i][2]],
                           [spotAvg |-> Round2(st.total_spot, st.count),
                            subsidyAvg |-> Round2(st.total_subsidy, st.count)]),
                  Later(latest_timestamp, st.latest))

\* process_year_directory: files are the *_TOTAL.json of the year, in glob's order
process_year_directory(cache, files) == YearLoop(cache, files, 1, <<>>, NoTimestamp)

\* the files of order that lie under the directory of year y
FilesOf(order, y) == SelectSeq(order, LAMBDA k : k[1] = y)

\* the loop of process_prices.main over all_dirs, from directory i on; DirStep is
\* the loop body once process_year_directory has returned r
RECURSIVE DirLoop(_, _, _, _, _, _, _)
RECURSIVE DirStep(_, _, _, _, _, _, _, _)
DirLoop(cache, all_dirs, order, i, years_found, rates_by_year, overall) ==
    IF i > Len(all_dirs)
    THEN [exc |-> "", years_found |-> years_found, rates_by_year |-> rates_by_year,
          latest |-> overall]
    ELSE DirStep(cache, all_dirs, order, i, years_found, rates_by_year, overall,
                 process_year_directory(cache, FilesOf(order, all_dirs[i])))
DirStep(cache, all_dirs, order, i, years_found, rates_by_year, overall, r) ==
    IF r.exc # ""
    THEN [exc |-> r.exc, years_found |-> <<>>, rates_by_year |-> <<>>, latest |-> NoTimestamp]
    ELSE IF DOMAIN r.results # {}
    THEN DirLoop(cache, all_dirs, order, i + 1, Append(years_found, all_dirs[i]),
                 (all_dirs[i] :> r.results) @@ rates_by_year, Later(overall, r.latest))
    ELSE DirLoop(cache, all_dirs, order, i + 1, Append(years_found, all_dirs[i]),
                 rates_by_year, overall)

\* years_found.sort()
RECURSIVE Insert(_, _)
Insert(s, x) ==
    IF s = <<>> THEN <<x>>
    ELSE IF x <= Head(s) THEN <<x>> \o s
    ELSE <<Head(s)>> \o Insert(Tail(s), x)
RECURSIVE Sorted(_)
Sorted(s) == IF s = <<>> THEN <<>> ELSE Insert(Sorted(Tail(s)), Head(s))

NoArtifact ==
    [written |-> FALSE, exports |-> {}, AVAILABLE_YEARS |-> <<>>,
     HISTORICAL_RATES_BY_YEAR |-> <<>>, YEAR_KEYS |-> <<>>, ZONE_KEYS |-> <<>>,
     LATEST_TIMESTAMP |-> NoTimestamp]

ExportNames == {"AVAILABLE_YEARS", "HISTORICAL_RATES_BY_YEAR", "LATEST_TIMESTAMP"}

\* the zone names in ascending order of Python's string comparison
ZoneOrder == <<"NO1", "NO2", "NO3", "NO4", "NO5">>
\* sorted(results): the keys of the dict in ascending order
sorted_keys(results) == SelectSeq(ZoneOrder, LAMBDA z : z \in DOMAIN results)

\* the file written when no year was found: the three exports, all empty
\* (LATEST_TIMESTAMP = "" is the export present with no timestamp)
MinimalFile ==
    [written |-> TRUE, exports |-> ExportNames, AVAILABLE_YEARS |-> <<>>,
     HISTORICAL_RATES_BY_YEAR |-> <<>>, YEAR_KEYS |-> <<>>, ZONE_KEYS |-> <<>>,
     LATEST_TIMESTAMP |-> NoTimestamp]

\* the file written from the years found.  json.dumps keeps the order of a dict's
\* keys: YEAR_KEYS are the years in the order rates_by_year[year] was assigned, and
\* ZONE_KEYS the zones of each year as process_year_directory returned them
YearsFile(r) ==
    [written |-> TRUE,
     exports |-> {"AVAILABLE_YEARS", "HISTORICAL_RATES_BY_YEAR"}
                 \cup (IF r.latest # NoTimestamp THEN {"LATEST_TIMESTAMP"} ELSE {}),
     AVAILABLE_YEARS |-> Sorted(r.years_found),
     HISTORICAL_RATES_BY_YEAR |-> r.rates_by_year,
     YEAR_KEYS |-> SelectSeq(r.years_found, LAMBDA y : y \in DOMAIN r.rates_by_year),
     ZONE_KEYS |-> [y \in DOMAIN r.rates_by_year |-> sorted_keys(r.rates_by_year[y])],
     LATEST_TIMESTAMP |-> r.latest]

\* main without the branch `if not years_found`
Emit_NoMinimal(r) == YearsFile(r)

\* the file process_prices.main writes from what its loop found
Emit(r) == IF r.years_found = <<>> THEN MinimalFile ELSE YearsFile(r)

\* process_prices.main on the cache, glob returning the year directories in the
\* order all_dirs and the rollup files in the order `order`
Written(r) ==
    IF r.exc # "" THEN [exc |-> r.exc, file |-> NoArtifact] ELSE [exc |-> "", file |-> Emit(r)]
process_main(cache, all_dirs, order) ==
    Written(DirLoop(cache, all_dirs, order, 1, <<>>, <<>>, NoTimestamp))

\* the orders in which a listing can return the elements of S
Orders(S) ==
    {s \in [1..Cardinality(S) -> S] : \A i, j \in 1..Cardinality(S) : i # j => s[i] # s[j]}

\* one run of process_prices.main
Aggregate ==
    /\ pc = "idle"
    /\ \E all_dirs \in Orders(yearDirs), order \in Orders(DOMAIN rollupFiles) :
           LET r == process_main(rollupFiles, all_dirs, order)
           IN /\ aggAborted' = (r.exc # "")
              /\ artifact' = IF r.exc # "" THEN artifact ELSE r.file
    /\ UNCHANGED <<today, remote, resolved, pc, loopVars, data, acc, fetchVars, store,
                   cachedAtStart, aborted, runs, kills, lastWrite>>

\* the (day, zone) keys dated from 1 January of START_YEAR through t
KeysUpTo(t) ==
    {k \in (START_YEAR..t[1]) \X (1..MonthsPerYear) \X (1..DaysPerMonth)
               \X {ZONES[i] : i \in 1..Len(ZONES)} :
        ~DateGT(Date(k[1], k[2], k[3]), t)}
\* 1 January of the year after START_YEAR
NewYear == Date(START_YEAR + 1, 1, 1)

\* today is one of the first days of the start year and the remote answers anything,
\* or today is 1 January of the next year and the remote answers every key alike
Init ==
    /\ \/ /\ today \in {DateOfOrd(n) : n \in 1..MaxTodayOrd}
          /\ remote = <<>>
       \/ /\ today = NewYear
          /\ remote \in {[k \in KeysUpTo(NewYear) |-> v] : v \in {PyNone, PyList(<<hourA>>)}}
    /\ pc = "idle"
    /\ year = START_YEAR /\ month = 1 /\ day = 1 /\ zi = 1
    /\ data = PyNone /\ acc = EmptyAcc
    /\ attempt = 0 /\ nreq = 0 /\ ndelay = 0
    /\ resps = <<>>
    /\ dayFiles = <<>> /\ rollupFiles = <<>> /\ yearDirs = {}
    /\ cachedAtStart = {}
    /\ lastWrite = <<>>
    /\ aborted = FALSE
    /\ runs = 0 /\ kills = 0
    /\ artifact = NoArtifact
    /\ aggAborted = FALSE
    /\ resolved = {}

Next ==
    \/ StartRun
    \/ LoadDay
    \/ FetchDay
    \/ WriteRollup

\* the sync runs of download_prices.py, each run to its end
Spec == Init /\ [][Next]_vars

-----------------------------------------------------------------------------
(* The first days of the start year *)

InitFirstDays == Init /\ today \in {DateOfOrd(n) : n \in 1..MaxShortOrd}

\* sync runs that may be stopped in the middle of a write
NextStop ==
    \/ Next
    \/ TornSaveDay

SpecStop == InitFirstDays /\ [][NextStop]_vars

\* the pipeline: sync runs and aggregation runs between them
NextPipeline ==
    \/ Next
    \/ Aggregate

SpecPipeline == InitFirstDays /\ [][NextPipeline]_vars

-----------------------------------------------------------------------------
(* Runs stopped between two units of work, against a remote that answers each key *)
(* the same way every time                                                        *)

\* the body the remote has for key k, when it has one
ResumeBody(k) == IF k[3] = 1 THEN <<hourA>> ELSE <<hourB, hourA>>
\* the remotes that have data for some of the keys through t and none for the others
ResumeRemotes(t) ==
    {[k \in KeysUpTo(t) |-> IF k \in S THEN PyList(ResumeBody(k)) ELSE PyNone] :
        S \in SUBSET KeysUpTo(t)}

InitResume ==
    /\ today = DateOfOrd(MaxTodayOrd)
    /\ remote \in ResumeRemotes(today)
    /\ pc = "idle"
    /\ year = START_YEAR /\ month = 1 /\ day = 1 /\ zi = 1
    /\ data = PyNone /\ acc = EmptyAcc
    /\ attempt = 0 /\ nreq = 0 /\ ndelay = 0
    /\ resps = <<>>
    /\ dayFiles = <<>> /\ rollupFiles = <<>> /\ yearDirs = {}
    /\ cachedAtStart = {}
    /\ lastWrite = <<>>
    /\ aborted = FALSE
    /\ runs = 0 /\ kills = 0
    /\ artifact = NoArtifact
    /\ aggAborted = FALSE
    /\ resolved = {}

NextResume ==
    \/ Next
    \/ StopRun

SpecResume == InitResume /\ [][NextResume]_vars

-----------------------------------------------------------------------------
(* process_prices.main on its own, on a cache drawn from a bounded set *)

\* rollup files in the cache
MaxRollupFiles == 2
\* the months that may have a rollup
AggMonths == {1, MonthsPerYear}

hourNoEnd == [NOK_per_kWh |-> 100]
\* an hourly record without the price field
hourNoPrice == [time_end |-> 1]
AggRollups ==
    { <<>>, <<hourA>>, <<hourB, hourA>>, <<hourA, hourB>>, <<hourNoEnd>>, <<hourNoPrice, hourA>> }
AggYears == {START_YEAR, START_YEAR + 1}
AggKeys == AggYears \X AggMonths \X {ZONES[i] : i \in 1..Len(ZONES)}

InitAgg ==
    /\ today = DateOfOrd(1)
    /\ pc = "idle"
    /\ year = START_YEAR /\ month = 1 /\ day = 1 /\ zi = 1
    /\ data = PyNone /\ acc = EmptyAcc
    /\ attempt = 0 /\ nreq = 0 /\ ndelay = 0
    /\ resps = <<>>
    /\ dayFiles = <<>>
    /\ yearDirs \in SUBSET AggYears
    /\ \E D \in SUBSET AggKeys :
           /\ Cardinality(D) <= MaxRollupFiles
           /\ \A k \in D : k[1] \in yearDirs
           /\ rollupFiles \in [D -> {json_dump(PyList(h)) : h \in AggRollups}]
    /\ cachedAtStart = {}
    /\ lastWrite = <<>>
    /\ aborted = FALSE
    /\ runs = 0 /\ kills = 0
    /\ artifact = NoArtifact
    /\ aggAborted = FALSE
    /\ remote = <<>> /\ resolved = {}

SpecAgg == InitAgg /\ [][Aggregate]_vars

-----------------------------------------------------------------------------
(* fetch_url on its own, one request at a time *)

syncVars ==
    <<today, remote, resolved, loopVars, acc, store, cachedAtStart, lastWrite, aborted, runs, kills, artifact,
      aggAborted>>

\* one requests.get and what the loop does with its answer
FetchRound ==
    /\ pc = "call"
    /\ attempt < MAX_RETRIES
    /\ \E r \in Responses :
           LET o == fetch_url_round(attempt, r)
           IN /\ resps' = Append(resps, r)
              /\ nreq' = nreq + 1
              /\ ndelay' = ndelay + o.sleeps
              /\ attempt' = o.attempt
              /\ IF o.returns
                 THEN pc' = "returned" /\ data' = o.value
                 ELSE pc' = "call" /\ data' = data
    /\ UNCHANGED syncVars

\* the while condition fails: return None after the loop
FetchExhausted ==
    /\ pc = "call"
    /\ attempt >= MAX_RETRIES
    /\ pc' = "returned"
    /\ data' = PyNone
    /\ UNCHANGED <<fetchVars, syncVars>>

InitFetch ==
    /\ today = DateOfOrd(1)
    /\ pc = "call"
    /\ year = START_YEAR /\ month = 1 /\ day = 1 /\ zi = 1
    /\ data = PyNone /\ acc = EmptyAcc
    /\ attempt = 0 /\ nreq = 0 /\ ndelay = 0
    /\ resps = <<>>
    /\ dayFiles = <<>> /\ rollupFiles = <<>> /\ yearDirs = {}
    /\ cachedAtStart = {}
    /\ lastWrite = <<>>
    /\ aborted = FALSE
    /\ runs = 0 /\ kills = 0
    /\ artifact = NoArtifact
    /\ aggAborted = FALSE
    /\ remote = <<>> /\ resolved = {}

NextFetch ==
    \/ FetchRound
    \/ FetchExhausted

SpecFetch == InitFetch /\ [][NextFetch]_vars

\* requests.get has a timeout and time.sleep returns: a call that can go on does
FairSpecFetch == SpecFetch /\ WF_vars(NextFetch)

-----------------------------------------------------------------------------
(* Properties of the sync runs *)

FirstKey == <<START_YEAR, 1, 1, ZONES[1]>>

\* C1: a key whose day entry was in the cache when the run started never reaches
\* fetch_url in that run: the run makes no request for it, whatever the remote
\* would answer.
C1_CacheHitNoFetch == pc = "fetch" => DayKey \notin cachedAtStart

\* a later run has read the first key, cached at its start, and gone on to the next
C1_Witness ==
    /\ runs >= 2
    /\ FirstKey \in cachedAtStart
    /\ pc = "load" /\ year = START_YEAR /\ month = 1 /\ day = 1 /\ zi = 2

\* C7: a day file that holds an entry keeps its text in every step of every run.
C7_WriteOnce ==
    [][\A k \in DOMAIN dayFiles :
           HasEntry(dayFiles, k) => k \in DOMAIN dayFiles' /\ dayFiles'[k] = dayFiles[k]]_vars

\* a later run has gone through all keys of a month that began with entries in the cache
C7_Witness ==
    /\ runs >= 2
    /\ pc = "rollup"
    /\ cachedAtStart # {}
    /\ cachedAtStart \subseteq Cached(dayFiles)

-----------------------------------------------------------------------------
(* Properties of fetch_url *)

Is503(r) == ~r.exc /\ r.status = 503
Is404(r) == ~r.exc /\ r.status = 404
Is200(r) == ~r.exc /\ r.status = 200
IsRetryable(r) == r.exc \/ r.status = 429 \/ (500 <= r.status /\ r.status < 600)
Last(s) == s[Len(s)]

\* C2: while the remote has answered with nothing but 503, up to three times, the
\* call goes on, one delay per answer; a 200 as the fourth answer ends the call with
\* its body, after 4 requests and 3 delays.
C2_RetryThenSuccess ==
    /\ (Len(resps) <= 3 /\ \A i \in 1..Len(resps) : Is503(resps[i]))
           => /\ pc = "call" /\ attempt < MAX_RETRIES
              /\ nreq = Len(resps) /\ ndelay = Len(resps)
    /\ (Len(resps) = 4 /\ (\A i \in 1..3 : Is503(resps[i])) /\ Is200(resps[4]))
           => /\ pc = "returned"
              /\ data = PyList(resps[4].body)
              /\ nreq = 4 /\ ndelay = 3

\* the call has returned the hours of a 200 that followed three 503
C2_Witness ==
    /\ pc = "returned"
    /\ resps = <<Http(503, <<>>), Http(503, <<>>), Http(503, <<>>), Http(200, <<hourA>>)>>

\* C3: a 404 ends the call at once with None: the request it answered is the call's
\* last, no delay follows it (the delays are those of the retried answers before it),
\* and as first answer it leaves the call with one request and no delay.
C3_NotFoundImmediate ==
    (resps # <<>> /\ Is404(Last(resps)))
        => /\ pc = "returned"
           /\ data = PyNone
           /\ nreq = Len(resps)
           /\ ndelay = Len(resps) - 1
           /\ attempt = Len(resps) - 1

\* a 404 has ended a call that had attempts left after two retries
C3_Witness ==
    /\ pc = "returned"
    /\ Len(resps) = 3
    /\ Is404(resps[3])
    /\ attempt < MAX_RETRIES - 1

\* C4: a call makes at most 5 requests, returns None when 5 answers were all
\* retryable failures, and always returns.
C4_BoundedRetry ==
    /\ [](nreq <= 5)
    /\ []((Len(resps) = 5 /\ \A i \in 1..5 : IsRetryable(resps[i]))
              => (pc = "returned" => data = PyNone) /\ nreq = 5)
    /\ <>(pc = "returned")

\* a call has returned after five retryable failures of three kinds
C4_Witness ==
    /\ pc = "returned"
    /\ Len(resps) = 5
    /\ \A i \in 1..5 : IsRetryable(resps[i])
    /\ \E i, j, k \in 1..5 : resps[i].exc /\ resps[j].status = 429 /\ resps[k].status = 500

-----------------------------------------------------------------------------
(* Properties of the cache files under stopped writes *)

\* the file of key k holds less than the last save_json call was to write
Torn(k) == k \in DOMAIN dayFiles /\ dayFiles[k] # json_dump(lastWrite[k])

\* C5: whatever part of a day file a stopped save_json left, load_json reads the
\* key as absent or as the whole data that was being written.
C5_NoTornRead ==
    \A k \in DOMAIN dayFiles : load_json(dayFiles, k) \in {PyNone, lastWrite[k]}

\* a run was stopped in save_json and left a part of the text, not only an empty file
C5_Witness ==
    /\ pc = "idle"
    /\ \E k \in DOMAIN dayFiles : Torn(k) /\ Len(dayFiles[k]) >= 2

\* the record of key k is missing or does not parse
Unreadable(k) == k \notin DOMAIN dayFiles \/ IsException(json_load(dayFiles[k]))

-----------------------------------------------------------------------------
(* Properties of the aggregation *)

HasRate(a, y, zone, month_name) ==
    /\ y \in DOMAIN a.HISTORICAL_RATES_BY_YEAR
    /\ zone \in DOMAIN a.HISTORICAL_RATES_BY_YEAR[y]
    /\ month_name \in DOMAIN a.HISTORICAL_RATES_BY_YEAR[y][zone]

\* C8: a rollup file with zero hours gives its (zone, month) no entry in the
\* mapping written.
C8_EmptyRollupAbsent ==
    artifact.written =>
        \A k \in DOMAIN rollupFiles :
            json_load(rollupFiles[k]) = PyList(<<>>)
                => ~HasRate(artifact, k[1], k[3], MONTH_NAMES[k[2]])

\* the time_end values of all hourly records of all rollup files
TimeEnds(cache) ==
    UNION {{json_load(cache[k]).items[i].time_end :
                i \in {j \in 1..Len(json_load(cache[k]).items) :
                           "time_end" \in DOMAIN json_load(cache[k]).items[j]}} :
           k \in DOMAIN cache}
IsMax(t, S) == t \in S /\ \A u \in S : u <= t

\* C9: a run of the aggregation that writes LATEST_TIMESTAMP writes the largest
\* time_end of all hourly records of all rollups in the cache.
C9_LatestIsMax ==
    [][(artifact'.written /\ pc = "idle" /\ pc' = "idle" /\ runs' = runs
        /\ "LATEST_TIMESTAMP" \in artifact'.exports /\ TimeEnds(rollupFiles) # {})
          => IsMax(artifact'.LATEST_TIMESTAMP, TimeEnds(rollupFiles))]_vars

\* C10: every file the aggregation writes has the three exports.
C10_AllExports == artifact.written => ExportNames \subseteq artifact.exports

\* C11: with no year directory in the cache, a run of the aggregation does not
\* fail and writes a file whose three exports are an empty list of years, an empty
\* mapping and an empty timestamp string.
C11_EmptyCacheArtifact ==
    [][yearDirs = {} => (~aggAborted' /\ artifact' = MinimalFile)]_vars

\* the aggregation has written the file of a cache without year directories
C11_Witness == yearDirs = {} /\ artifact.written /\ artifact.AVAILABLE_YEARS = <<>>

\* the records of the rollup file of key k, and those of them that have a price
HoursOf(cache, k) == json_load(cache[k]).items
PricedHours(cache, k) == SelectSeq(HoursOf(cache, k), LAMBDA h : "NOK_per_kWh" \in DOMAIN h)
\* the rollup files with a record that has no price
LacksPrice(cache) ==
    {k \in DOMAIN cache : Len(PricedHours(cache, k)) < Len(HoursOf(cache, k))}

\* C12: when a rollup holds a record without the price field, a run of the
\* aggregation does not fail, writes the file, and the file has an entry for every
\* rollup that holds a record with a price.
C12_MalformedSkipped ==
    [][LacksPrice(rollupFiles) # {}
          => /\ ~aggAborted'
             /\ artifact'.written
             /\ \A k \in DOMAIN rollupFiles :
                    PricedHours(rollupFiles, k) # <<>>
                        => HasRate(artifact', k[1], k[3], MONTH_NAMES[k[2]])]_vars

\* The subsidy policy, in 1/40 oere, for a raw price of p hundredths of NOK per kWh
PolicyVatQuarters(z) == IF z = "NO4" THEN 4 ELSE 5
PolicySpot(p, z) == p * 10 * PolicyVatQuarters(z)
PolicyCap(z) == 770 * PolicyVatQuarters(z)
PolicySubsidy(p, z) ==
    IF PolicySpot(p, z) > PolicyCap(z) THEN ((PolicySpot(p, z) - PolicyCap(z)) * 9) \div 10 ELSE 0
RECURSIVE PolicySpotSum(_, _)
PolicySpotSum(hours, z) ==
    IF hours = <<>> THEN 0
    ELSE PolicySpot(Head(hours).NOK_per_kWh, z) + PolicySpotSum(Tail(hours), z)
RECURSIVE PolicySubsidySum(_, _)
PolicySubsidySum(hours, z) ==
    IF hours = <<>> THEN 0
    ELSE PolicySubsidy(Head(hours).NOK_per_kWh, z) + PolicySubsidySum(Tail(hours), z)
\* the rollup files that hold at least one record, all with a price
PricedRollups(cache) ==
    {k \in DOMAIN cache : HoursOf(cache, k) # <<>> /\ k \notin LacksPrice(cache)}
OneHour == json_dump(PyList(<<hourA>>))

\* C13: for every rollup whose records all have a price, calculate_monthly_stats
\* divides the sum of the hourly spot prices p*100*vat and the sum of the hourly
\* subsidies max(0, spot - 77*vat)*0.90 by the number of hours (vat 1.0 in NO4,
\* 1.25 elsewhere), and the file written holds the two means rounded to 2 places;
\* a raw price of 1.00 gives 100.00 and 20.70 in NO4, 125.00 and 25.875 in NO1.
C13_SubsidyPolicy ==
    /\ \A k \in PricedRollups(rollupFiles) :
           LET st == calculate_monthly_stats(rollupFiles[k], k[3])
               hours == HoursOf(rollupFiles, k)
           IN /\ st.exc = ""
              /\ st.count = Len(hours)
              /\ st.total_spot = PolicySpotSum(hours, k[3])
              /\ st.total_subsidy = PolicySubsidySum(hours, k[3])
              /\ artifact.written =>
                     /\ HasRate(artifact, k[1], k[3], MONTH_NAMES[k[2]])
                     /\ artifact.HISTORICAL_RATES_BY_YEAR[k[1]][k[3]][MONTH_NAMES[k[2]]]
                            = [spotAvg |-> Round2(PolicySpotSum(hours, k[3]), Len(hours)),
                               subsidyAvg |-> Round2(PolicySubsidySum(hours, k[3]), Len(hours))]
    /\ calculate_monthly_stats(OneHour, "NO4").total_spot = 100 * 40
    /\ calculate_monthly_stats(OneHour, "NO4").total_subsidy * 10 = 207 * 40
    /\ calculate_monthly_stats(OneHour, "NO1").total_spot = 125 * 40
    /\ calculate_monthly_stats(OneHour, "NO1").total_subsidy * 1000 = 25875 * 40

\* the file written holds the means of a one-hour rollup at raw price 1.00 in NO4
\* (100.00, 20.70) and in NO1 (125.00, 25.88)
C13_Witness ==
    /\ artifact.written
    /\ \E k1, k4 \in DOMAIN rollupFiles :
           /\ k1[3] = "NO1" /\ k4[3] = "NO4"
           /\ rollupFiles[k1] = OneHour /\ rollupFiles[k4] = OneHour
           /\ artifact.HISTORICAL_RATES_BY_YEAR[k1[1]]["NO1"][MONTH_NAMES[k1[2]]]
                  = [spotAvg |-> 12500, subsidyAvg |-> 2588]
           /\ artifact.HISTORICAL_RATES_BY_YEAR[k4[1]]["NO4"][MONTH_NAMES[k4[2]]]
                  = [spotAvg |-> 10000, subsidyAvg |-> 2070]

\* a sequence of integers in strictly ascending order
Ascending(q) == \A i, j \in 1..Len(q) : i < j => q[i] < q[j]
\* the place of a zone name in the order of strings
ZoneRank(z) == CHOOSE i \in 1..Len(ZoneOrder) : ZoneOrder[i] = z
ZonesAscending(q) == \A i, j \in 1..Len(q) : i < j => ZoneRank(q[i]) < ZoneRank(q[j])

\* the list of years of the file written is ascending
YearsListAscending == artifact.written => Ascending(artifact.AVAILABLE_YEARS)
\* the zone keys of every year of the file written are ascending
ZoneKeysAscending ==
    artifact.written => \A y \in DOMAIN artifact.ZONE_KEYS : ZonesAscending(artifact.ZONE_KEYS[y])

\* C14: in every file written the years are ascending, in the list of years and
\* among the keys of the mapping, and the zone keys of every year are ascending,
\* whatever the order in which the year directories and rollup files are listed.
C14_StableOrder ==
    /\ YearsListAscending
    /\ ZoneKeysAscending
    /\ artifact.written => Ascending(artifact.YEAR_KEYS)

-----------------------------------------------------------------------------
(* Properties of the order of work in a sync run *)

ZoneSet == {ZONES[i] : i \in 1..Len(ZONES)}
\* the (day, zone) keys of month (y, m) whose date is not after today
MonthKeys(y, m) ==
    {<<y, m, d, z>> : d \in {e \in 1..DaysPerMonth : ~DateGT(Date(y, m, e), today)}, z \in ZoneSet}
\* month a is before month b
MonthLT(a, b) == a[1] < b[1] \/ (a[1] = b[1] /\ a[2] < b[2])

\* C15: a rollup is written only in the rollup loop of its own month, which a run
\* enters only when it has gone through every (day, zone) key of the month up to
\* today; from there no day file changes and the run goes on to a later month or
\* ends, and the month of a run never goes back.
C15_RollupBarrier ==
    [][/\ pc = "rollup" => /\ MonthKeys(year, month) \subseteq resolved
                           /\ dayFiles' = dayFiles
                           /\ pc' \in {"rollup", "load", "idle"}
                           /\ pc' = "rollup" => <<year', month'>> = <<year, month>>
                           /\ pc' = "load" => MonthLT(<<year, month>>, <<year', month'>>)
       /\ \A k \in DOMAIN rollupFiles' :
              (k \notin DOMAIN rollupFiles \/ rollupFiles'[k] # rollupFiles[k])
                  => pc = "rollup" /\ k = RollupKey
       /\ (pc \in {"load", "fetch"} /\ pc' # "idle") => <<year', month'>> = <<year, month>>]_vars

\* the run writes the rollups of a second month after a month whose keys it went
\* through, one of them left without an entry
C15_Witness ==
    /\ pc = "rollup"
    /\ month = 2
    /\ <<START_YEAR, 1, ZONES[1]>> \in DOMAIN rollupFiles
    /\ MonthKeys(START_YEAR, 1) \cup MonthKeys(START_YEAR, 2) \subseteq resolved
    /\ \E k \in MonthKeys(START_YEAR, 1) : ~HasEntry(dayFiles, k)

\* the hours of the day entry of key k, none when the file holds no entry
EntryHours(files, k) == IF HasEntry(files, k) THEN json_load(files[k]).items ELSE <<>>
\* the day entries of zone z in month (y, m), from day d on, one after the other
RECURSIVE ConcatDays(_, _, _, _, _)
ConcatDays(files, y, m, z, d) ==
    IF d > DaysPerMonth \/ DateGT(Date(y, m, d), today) THEN <<>>
    ELSE EntryHours(files, <<y, m, d, z>>) \o ConcatDays(files, y, m, z, d + 1)

\* C16: a step of the rollup loop writes, for its zone, the day entries of the
\* month that are in the cache at that moment, in day order, when they hold at
\* least one hour, and writes nothing otherwise.
C16_RollupContent ==
    [][pc = "rollup" =>
          LET hours == ConcatDays(dayFiles, year, month, Zone, 1)
          IN IF hours # <<>>
             THEN /\ DOMAIN rollupFiles' = DOMAIN rollupFiles \cup {RollupKey}
                  /\ json_load(rollupFiles'[RollupKey]) = PyList(hours)
                  /\ \A k \in DOMAIN rollupFiles : k # RollupKey => rollupFiles'[k] = rollupFiles[k]
             ELSE rollupFiles' = rollupFiles]_vars

\* a later run has written a rollup of three hours from two days, with entries of
\* the month served from the cache
C16_Witness ==
    /\ runs >= 2
    /\ pc = "rollup" /\ zi = 2
    /\ cachedAtStart # {}
    /\ RollupKey[3] = ZONES[2]
    /\ <<year, month, ZONES[1]>> \in DOMAIN rollupFiles
    /\ Len(json_load(rollupFiles[<<year, month, ZONES[1]>>]).items) = 3
    /\ json_load(rollupFiles[<<year, month, ZONES[1]>>]).items
           = ConcatDays(dayFiles, year, month, ZONES[1], 1)

-----------------------------------------------------------------------------
(* Properties of what a sync run does with the answer of fetch_url *)

\* C17: when fetch_url has returned the parsed body of a 200 for a key, the step
\* leaves the returned data in the file of that key.
C17_SuccessPersisted ==
    [][(pc = "fetch" /\ data'.kind = "list")
          => /\ DayKey \in DOMAIN dayFiles'
             /\ json_load(dayFiles'[DayKey]) = data']_vars

-----------------------------------------------------------------------------
(* Properties of the window of dates a sync run covers *)

\* the date y-m-d is today or before it
UpToToday(y, m, d) ==
    \/ y < today[1]
    \/ y = today[1] /\ m < today[2]
    \/ y = today[1] /\ m = today[2] /\ d <= today[3]
\* every (day, zone) key from 1 January of the start year through today
WindowKeys ==
    {k \in (START_YEAR..today[1]) \X (1..MonthsPerYear) \X (1..DaysPerMonth) \X ZoneSet :
        UpToToday(k[1], k[2], k[3])}
\* the step ends a run that was not stopped
RunEnds == pc' = "idle" /\ kills' = kills /\ (pc = "rollup" \/ runs' # runs)

\* C18: a run reads, fetches and writes no day key dated after today and writes no
\* rollup of a month that begins after today, and a run that ends has gone through
\* every (day, zone) key from 1 January of the start year through today.
C18_NoFutureDates ==
    /\ [](/\ pc \in {"load", "fetch"} => UpToToday(year, month, day)
          /\ pc = "rollup" => UpToToday(year, month, 1)
          /\ resolved \subseteq WindowKeys
          /\ \A k \in DOMAIN dayFiles : UpToToday(k[1], k[2], k[3])
          /\ \A k \in DOMAIN rollupFiles : UpToToday(k[1], k[2], 1))
    /\ [][RunEnds => resolved' = WindowKeys]_vars

\* a run has ended on 1 January of the second year, with days and months of that
\* year still to come, after going through the whole first year
C18_Witness ==
    /\ pc = "idle" /\ runs >= 1
    /\ today = <<START_YEAR + 1, 1, 1>>
    /\ resolved = WindowKeys
    /\ \E k \in resolved : k[1] = START_YEAR /\ k[2] = MonthsPerYear /\ k[3] = DaysPerMonth
    /\ \E k \in DOMAIN rollupFiles : k[1] = START_YEAR + 1

\* C19: a fetch_url that returns None (not found, retries exhausted, or a status
\* that is not retried) changes no file and the run goes on to the next key or to
\* the month's rollups, never aborted; a run that ends has gone through every key
\* of the window; each step of the rollup loop leaves a rollup for a zone whose
\* month has entries; and a run that reads a key without an entry goes to fetch_url
\* for it.
C19_FailureIsolated ==
    /\ [](~aborted)
    /\ [][/\ (pc = "fetch" /\ data' = PyNone)
                => /\ dayFiles' = dayFiles /\ rollupFiles' = rollupFiles
                   /\ ~HasEntry(dayFiles', DayKey)
                   /\ DayKey \in resolved'
                   /\ pc' \in {"load", "rollup"}
                   /\ pc' = "load" => <<year, month, day, zi>>' # <<year, month, day, zi>>
          /\ RunEnds => resolved' = WindowKeys
          /\ (pc = "rollup" /\ ConcatDays(dayFiles, year, month, Zone, 1) # <<>>)
                => RollupKey \in DOMAIN rollupFiles'
          /\ (pc = "load" /\ ~HasEntry(dayFiles, DayKey)) => pc' = "fetch"]_vars

\* a later run is about to fetch the first key again, left without an entry by a
\* run that went on to store other keys and to write a rollup
C19_Witness ==
    /\ runs >= 2
    /\ pc = "fetch"
    /\ DayKey = FirstKey
    /\ FirstKey \notin DOMAIN dayFiles
    /\ cachedAtStart # {}
    /\ DOMAIN rollupFiles # {}

-----------------------------------------------------------------------------
(* Properties of runs resumed after a stop *)

\* what one run from an empty cache, never stopped, leaves: an entry for every key
\* the remote has data for, and a rollup for every zone and month with an entry
UninterruptedDays ==
    [k \in {j \in DOMAIN remote : Truthy(remote[j])} |-> json_dump(remote[k])]
UninterruptedRollups ==
    [k \in {j \in (START_YEAR..today[1]) \X (1..MonthsPerYear) \X ZoneSet :
                ConcatDays(UninterruptedDays, j[1], j[2], j[3], 1) # <<>>}
        |-> json_dump(PyList(ConcatDays(UninterruptedDays, k[1], k[2], k[3], 1)))]

\* C20: against a remote that answers each key the same way, every run that ends
\* without being stopped, whether the first run or a run after runs stopped between
\* two units of work, leaves the day entries and rollups of one uninterrupted run.
C20_ResumeSafe ==
    [][RunEnds => /\ dayFiles' = UninterruptedDays
                  /\ rollupFiles' = UninterruptedRollups]_vars

\* a full run has ended after a run that was stopped before it had fetched every
\* key the remote has data for, in a cache with rollups of two months
C20_Witness ==
    /\ pc = "idle" /\ runs = 2 /\ kills = 1
    /\ resolved = WindowKeys
    /\ cachedAtStart # {}
    /\ cachedAtStart # Cached(dayFiles)
    /\ dayFiles = UninterruptedDays
    /\ rollupFiles = UninterruptedRollups
    /\ \E k, j \in DOMAIN rollupFiles : k[2] # j[2]

=============================================================================
